---- MODULE Spec2Model ----
\* Model of the irontelemetry-js capture/delivery pipeline:
\* BreadcrumbManager (src/src/breadcrumbs.ts), OfflineQueue and Transport
\* (src/src/transport.ts), TelemetryClient.sendEvent / processQueue
\* (src/src/client.ts) and resolveOptions (src/src/config.ts).
EXTENDS Integers, Sequences, FiniteSets, TLC

\* ---------------------------------------------------------------- bounds
MaxBcCap == 3
MaxBcAdds == 4
MaxOqCap == 2
MaxOqOps == 3
MaxLoaded == 3
MaxCaptures == 2
MaxC6Captures == 3
G == 2
MaxJourneys == 2
MaxSteps == 2
MaxEvents == 1
MaxTracks == 2
MaxEndTracks == 1
MaxWrites == 1
MaxDrains == 2
MaxDCaps == 2
MaxDqCap == 2
MaxDLoaded == 1
MaxCDrains == 2
MaxCLoaded == 1
MaxC4Loaded == 3
MaxC4Captures == 1
\* processQueue calls (timer ticks and flush()) explored per behaviour
MaxCRuns == 2

VARIABLES
  \* BreadcrumbManager
  bc, bcMax, bcAdded, bcClr,
  \* standalone OfflineQueue
  oq, oqMax, oqLoaded, oqEnq, oqOps, oqOnlyEnq, oqStore, stored, lastSave,
  \* TelemetryClient
  rate, qOn, cq, cqMax, nextId, capMax, hookRes, pend, cdr, nRuns, lastAct, lastDrain, drained,
  qRun, lastR, lastHook, lastEv, sentEv, lastTr, lastRes, lastOut, qBefore,
  firstRes, lastTrOut, lastHealth,
  \* TelemetryClient journey state, Journey / Step objects, built events
  curJ, nJ, jComp, jFail, jUser, jMeta, jCurStep, steps, cUser, tags, extra,
  events, disposed, lastDisposed, tracks,
  \* ghost: the client user copied into each journey by startJourney ("replaced"
  \* once Journey.setUser has been called on it)
  jStartUser,
  \* ghost: the last Step / Journey status write and what it saw
  jAct,
  \* one queued event persisted by save() and read back by load()
  rtIn, rtOut, rtDone,
  \* TelemetryClient offline queue drained by the timer and flush()
  dq, dqMax, nCap, timerOn, clientClosed, good, drains, dupSend

bcVars == <<bc, bcMax, bcAdded, bcClr>>
oqVars == <<oq, oqMax, oqLoaded, oqEnq, oqOps, oqOnlyEnq, oqStore, stored,
            lastSave>>
cVars == <<rate, qOn, cq, cqMax, nextId, capMax, hookRes, pend, cdr, nRuns, lastAct, lastDrain, drained,
           qRun, lastR, lastHook, lastEv, sentEv, lastTr, lastRes, lastOut,
           qBefore, firstRes, lastTrOut, lastHealth>>
jVars == <<curJ, nJ, jComp, jFail, jUser, jMeta, jCurStep, steps, cUser, tags,
           extra, events, disposed, lastDisposed, tracks, jStartUser,
           jAct>>
rtVars == <<rtIn, rtOut, rtDone>>
dVars == <<dq, dqMax, nCap, timerOn, clientClosed, good, drains, dupSend>>
vars == <<bcVars, oqVars, cVars, jVars, rtVars, dVars>>

\* ---------------------------------------------------------------- helpers
Min(a, b) == IF a < b THEN a ELSE b
Max(a, b) == IF a > b THEN a ELSE b
Ids(s) == [i \in 1..Len(s) |-> s[i].id]
Range(s) == {s[i] : i \in DOMAIN s}

\* Array.prototype.slice(start) with one argument
JsSlice(s, start) ==
  LET from == IF start < 0 THEN Max(Len(s) + start, 0) ELSE Min(start, Len(s))
  IN SubSeq(s, from + 1, Len(s))

\* ---------------------------------------------------------------- BreadcrumbManager
\* push then "if (length > max) breadcrumbs = breadcrumbs.slice(-max)"
BcPush(s, b, max) ==
  LET pushed == Append(s, b)
  IN IF Len(pushed) > max THEN JsSlice(pushed, 0 - max) ELSE pushed

BcInit ==
  /\ bc = <<>>
  /\ bcMax \in 0..MaxBcCap
  /\ bcAdded = <<>>
  \* ghost: number of breadcrumbs added before the last clear()
  /\ bcClr = 0

\* BreadcrumbManager.add(message, category, level, data)
BcAdd ==
  /\ Len(bcAdded) < MaxBcAdds
  /\ LET b == [n |-> Len(bcAdded) + 1, via |-> "add"]
     IN /\ bc' = BcPush(bc, b, bcMax)
        /\ bcAdded' = Append(bcAdded, b)
  /\ UNCHANGED <<bcMax, bcClr>>

\* BreadcrumbManager.addBreadcrumb(breadcrumb)
BcAddBreadcrumb ==
  /\ Len(bcAdded) < MaxBcAdds
  /\ LET b == [n |-> Len(bcAdded) + 1, via |-> "obj"]
     IN /\ bc' = BcPush(bc, b, bcMax)
        /\ bcAdded' = Append(bcAdded, b)
  /\ UNCHANGED <<bcMax, bcClr>>

\* BreadcrumbManager.clear(): breadcrumbs = []
BcClear ==
  /\ bc' = <<>>
  /\ bcClr' = Len(bcAdded)
  /\ UNCHANGED <<bcMax, bcAdded>>

\* ---------------------------------------------------------------- OfflineQueue
Ev(n, r) == [id |-> n, rep |-> r]

EnqueueRejectNewest(q, e, max) ==
  IF Len(q) >= max THEN q ELSE Append(q, e)

\* OfflineQueue.enqueue: "if (queue.length >= maxSize) queue.shift()", then push
\* (shift on an empty array is a no-op)
Enqueue(q, e, max) ==
  IF Len(q) >= max /\ Len(q) > 0 THEN Append(Tail(q), e) ELSE Append(q, e)

RemoveHead(q, id) == IF q = <<>> THEN q ELSE Tail(q)

\* OfflineQueue.remove: filter((e) => e.eventId !== eventId)
Remove(q, id) == SelectSeq(q, LAMBDA e : e.id # id)

\* contents a previous session may have persisted under STORAGE_KEY
LoadedQueues == { [i \in 1..k |-> Ev(10 + i, FALSE)] : k \in 0..MaxLoaded }

\* what localStorage holds under STORAGE_KEY when the queue is constructed:
\*   absent       typeof localStorage === 'undefined'
\*   missing      getItem returns null
\*   unparsable   JSON.parse throws
\*   object, null, number  parsed, but parsed.map is not a function (throws)
\*   arrayNull    [null]: deserializeEvent(null) reads null.timestamp (throws)
\*   arrayBadCrumbs  [{"breadcrumbs": 5}]: (5 ?? []).map throws
\*   arrayJunk    [{}] or [1]: deserializes without throwing
\*   arrayEvents  an array of persisted events
NonEventKinds == {"absent", "missing", "unparsable", "object", "null", "number",
                  "arrayNull", "arrayBadCrumbs", "arrayJunk"}
StoredInputs == {[kind |-> k, evs |-> <<>>] : k \in NonEventKinds} \cup
                {[kind |-> "arrayEvents", evs |-> q] : q \in LoadedQueues}

\* the event deserializeEvent builds from {} : every field undefined except
\* an Invalid Date timestamp and empty breadcrumbs
JunkEv == Ev(-1, FALSE)

\* OfflineQueue.load(): the try block assigns this.queue only when parse, map
\* and every deserializeEvent succeed; every throw is caught (queue stays [])
Load(st) ==
  CASE st.kind = "arrayEvents" -> st.evs
    [] st.kind = "arrayJunk"   -> <<JunkEv>>
    [] OTHER                   -> <<>>

SaveResultStale(q, ok) == stored

\* OfflineQueue.save(): setItem(STORAGE_KEY, JSON.stringify(queue)) when
\* localStorage exists; a throwing setItem (ok = FALSE) is caught and logged
SaveResult(q, ok) ==
  IF oqStore.kind = "absent" THEN stored
  ELSE IF ok THEN [kind |-> "arrayEvents", evs |-> q] ELSE stored

SaveOutcome(ok) ==
  IF oqStore.kind = "absent" THEN "skipped" ELSE IF ok THEN "ok" ELSE "failed"

OqSave(q) ==
  \E ok \in BOOLEAN :
    /\ stored' = SaveResult(q, ok)
    /\ lastSave' = SaveOutcome(ok)

\* new OfflineQueue(maxSize): this.load()
OqInit ==
  /\ oqMax \in 0..MaxOqCap
  /\ oqStore \in StoredInputs
  /\ oqLoaded = Load(oqStore)
  /\ oq = oqLoaded
  /\ stored = oqStore
  /\ lastSave = "none"
  /\ oqEnq = <<>>
  /\ oqOps = 0
  /\ oqOnlyEnq = TRUE

OqEnqueue ==
  /\ oqOps < MaxOqOps
  /\ LET e == Ev(Len(oqEnq) + 1, FALSE)
          nq == Enqueue(oq, e, oqMax)
     IN /\ oq' = nq
        /\ OqSave(nq)
        /\ oqEnq' = Append(oqEnq, e)
  /\ oqOps' = oqOps + 1
  /\ UNCHANGED <<oqMax, oqLoaded, oqOnlyEnq, oqStore>>

\* an eventId that no queued event carries
AbsentId == 99

\* OfflineQueue.remove(eventId): filter by id (a no-op for an absent id), then save()
OqRemove ==
  /\ oqOps < MaxOqOps
  /\ \E id \in Range(Ids(oq)) \cup {AbsentId} :
       LET nq == Remove(oq, id)
       IN oq' = nq /\ OqSave(nq)
  /\ oqOps' = oqOps + 1
  /\ oqOnlyEnq' = FALSE
  /\ UNCHANGED <<oqMax, oqLoaded, oqEnq, oqStore>>

OqClear ==
  /\ oqOps < MaxOqOps
  /\ oq' = <<>>
  /\ OqSave(<<>>)
  /\ oqOps' = oqOps + 1
  /\ oqOnlyEnq' = FALSE
  /\ UNCHANGED <<oqMax, oqLoaded, oqEnq, oqStore>>

\* ---------------------------------------------------------------- Transport
NoId == 0
\* SendResult {success, eventId?, error?, queued?}; absent fields are NoId / "undef"
Res(ok, id, err, q) == [success |-> ok, eventId |-> id, error |-> err, queued |-> q]
NoRes == Res(FALSE, NoId, "undef", "undef")
NoEv == Ev(NoId, FALSE)

\* collector outcomes of one fetch in Transport.send
TrOutcomes == {"netErr", "http5xx", "ok2xxId", "ok2xxNoId", "ok2xxEmpty"}

\* Transport.send(event): never throws; 2xx => success with server id ?? event id
TransportSend(ev, out) ==
  CASE out = "netErr"    -> Res(FALSE, NoId, "net", "undef")
    [] out = "http5xx"   -> Res(FALSE, NoId, "http", "undef")
    [] out = "ok2xxId"   -> Res(TRUE, 100 + ev.id, "undef", "undef")
    [] out = "ok2xxNoId" -> Res(TRUE, ev.id, "undef", "undef")
    \* 2xx with an empty / non-JSON body: response.json() rejects, caught
    [] out = "ok2xxEmpty" -> Res(FALSE, NoId, "json", "undef")

\* collector outcomes of the GET /api/v1/health probe
HealthOutcomes == {"netErr", "http5xx", "ok2xx"}

\* Transport.isOnline(): response.ok, false on any thrown error
IsOnline(h) == h = "ok2xx"

\* ---------------------------------------------------------------- resolveOptions
\* sampleRate in units of 1/G; Math.random() draws r/G with r \in 0..G-1
\* (at this granularity a rate strictly between 0 and 1 samples as 1.0 does,
\* so the inputs are the bounds and the values clamped to them)
RateInputs == {[given |-> FALSE, v |-> 0]} \cup
              {[given |-> TRUE, v |-> x] : x \in {-1, 0, G, G+1}}

\* Math.max(0, Math.min(1, options.sampleRate ?? 1.0))
ResolveRate(x) == IF x.given THEN Max(0, Min(G, x.v)) ELSE G

\* maxOfflineQueueSize of the client (0 keeps one event, as 1 does: enqueue
\* shifts, then pushes)
CqMaxInputs == 1..MaxOqCap

\* beforeSend return values: false, true, or a replacement event object
Hooks == {"false", "true", "replace", "throw"}

\* options.beforeSend: the default "() => true", or a user function that may
\* return any of Hooks on each call
HookFns == {{"true"}, Hooks}

\* ---------------------------------------------------------------- TelemetryClient
\* shape of a result as the caller sees it (the caller does not know the
\* client-generated id in advance)
Shape(res, e) == [success |-> res.success, ownId |-> (res.eventId = e.id),
                  error |-> res.error, queued |-> res.queued]

\* running processQueue() calls: the 30 s timer and flush() each start one
\* whenever invoked, so several may be suspended at once
CDrainSlots == 1..MaxCDrains

CNoDrain == [pc |-> "idle", startQ |-> <<>>, snap |-> <<>>, i |-> 1, sent |-> <<>>,
             succ |-> {}, probed |-> FALSE, interf |-> FALSE]

\* the drain that has just returned (kind "noop", "offline" or "done")
NoDR == [kind |-> "none", startQ |-> <<>>, snap |-> <<>>, sent |-> <<>>,
         succ |-> {}, probed |-> FALSE, interf |-> FALSE]

DR(d, kind) == [kind |-> kind, startQ |-> d.startQ, snap |-> d.snap, sent |-> d.sent,
                succ |-> d.succ, probed |-> d.probed, interf |-> d.interf]

NoHealth == [h |-> "none", k |-> 0]

\* events persisted by an earlier session, loaded by the OfflineQueue the
\* constructor builds
CLoaded(m) == {[i \in 1..n |-> Ev(10 + i, FALSE)] : n \in 0..m}

SampledOutAtLeast(r, rt) == r >= rt

\* "if (Math.random() > this.options.sampleRate)": the event is dropped
SampledOut(r, rt) == r > rt

\* new TelemetryClient(options), with at most caps captures explored, up to
\* nLoad persisted events and maxOfflineQueueSize drawn from maxes
CInitFor(caps, nLoad, maxes) ==
  /\ \E x \in RateInputs : rate = ResolveRate(x)
  /\ qOn \in BOOLEAN
  /\ cqMax \in maxes
  /\ cq \in IF qOn THEN CLoaded(nLoad) ELSE {<<>>}
  /\ nextId = 1
  /\ capMax = caps
  /\ hookRes \in HookFns
  /\ pend = {}
  /\ cdr = [k \in CDrainSlots |-> CNoDrain]
  /\ nRuns = 0
  /\ lastAct = "none"
  /\ lastDrain = NoDR
  /\ drained = FALSE
  \* ghost: how many of the captures 1, 2, ... failed and were queued, in
  \* capture order (-1 once one was not)
  /\ qRun = 0
  /\ lastR = 0
  /\ lastHook = "none"
  /\ lastEv = NoEv
  /\ sentEv = NoEv
  /\ lastTr = NoRes
  /\ lastRes = NoRes
  /\ lastOut = "none"
  /\ qBefore = <<>>
  \* ghost: shape and outcome of the first capture result returned
  /\ firstRes = <<>>
  /\ lastTrOut = "none"
  /\ lastHealth = NoHealth

CInit == CInitFor(MaxCaptures, MaxCLoaded, CqMaxInputs)

HookThrowsSwallowed(hook) == FALSE

\* "this.options.beforeSend(event)" throws: sendEvent (async) rejects
HookThrows(hook) == hook = "throw"

HookResultOriginal(e, hook) == e

\* "eventToSend = beforeSendResult === true ? event : beforeSendResult"
HookResult(e, hook) == IF hook = "true" THEN e ELSE Ev(e.id, TRUE)

QueuedResultUnflagged(res) == res

\* "return { ...result, queued: true }"
QueuedResult(res) == [res EXCEPT !.queued = "true"]

\* running drains other than k0 note that the queue changed under them
MarkInterf(c, k0, changed) ==
  [k \in CDrainSlots |-> IF k # k0 /\ changed /\ c[k].pc # "idle"
                           THEN [c[k] EXCEPT !.interf = TRUE] ELSE c[k]]

CapReset ==
  /\ lastR' = 0 /\ lastHook' = "none" /\ lastEv' = NoEv /\ sentEv' = NoEv
  /\ lastTr' = NoRes /\ lastRes' = NoRes /\ lastOut' = "none"
  /\ lastTrOut' = "none"

\* createEvent then sendEvent up to its first await: the sampling draw r, the
\* beforeSend hook, then transport.send(eventToSend) is called and the
\* capture suspends (pend); sampled-out, hook-dropped and hook-throwing
\* captures settle here
CaptureBegin ==
  /\ nextId <= capMax
  /\ \E r \in 0..G-1, hook \in hookRes :
       LET e == Ev(nextId, FALSE)
           sampledOut == SampledOut(r, rate)
           thrown == ~sampledOut /\ HookThrows(hook)
           hookDrop == ~sampledOut /\ ~thrown /\ hook = "false"
           toSend == HookResult(e, hook)
           sends == ~sampledOut /\ ~thrown /\ ~hookDrop
           res == Res(TRUE, e.id, "undef", "undef")
           out == CASE sampledOut -> "sampled"
                    [] thrown -> "rejected"
                    [] hookDrop -> "hookDropped"
                    [] OTHER -> "pending"
       IN /\ pend' = IF sends
                       THEN pend \cup {[e |-> e, toSend |-> toSend, hook |-> hook]}
                       ELSE pend
          /\ lastR' = r
          /\ lastEv' = e
          /\ lastHook' = IF sampledOut THEN "none" ELSE hook
          /\ sentEv' = IF sends THEN toSend ELSE NoEv
          /\ lastTr' = NoRes
          /\ lastTrOut' = "none"
          /\ lastRes' = IF sends \/ thrown THEN NoRes ELSE res
          /\ lastOut' = out
          /\ qRun' = IF sends THEN qRun ELSE -1
          /\ firstRes' = IF sends \/ thrown \/ firstRes # <<>> THEN firstRes
                         ELSE <<Shape(res, e), out>>
  /\ nextId' = nextId + 1
  /\ lastAct' = "capture"
  /\ qBefore' = cq
  /\ lastDrain' = NoDR
  /\ lastHealth' = NoHealth
  /\ UNCHANGED <<rate, qOn, cq, cqMax, capMax, hookRes, cdr, nRuns, drained>>

\* captureException(error, extra): createEvent then sendEvent
CaptureException == CaptureBegin

\* captureMessage(message, level): createEvent then sendEvent
CaptureMessage == CaptureBegin

\* a suspended capture's transport.send resolves with the collector's outcome
\* tr: success is returned; a failure is enqueued (when the queue exists) and
\* flagged queued
CaptureSettle ==
  /\ \E p \in pend, tr \in TrOutcomes :
       LET trRes == TransportSend(p.toSend, tr)
           failQ == ~trRes.success /\ qOn
           res == IF failQ THEN QueuedResult(trRes) ELSE trRes
           out == CASE trRes.success -> "sent"
                    [] failQ -> "queued"
                    [] OTHER -> "failed"
           nq == IF failQ THEN Enqueue(cq, p.toSend, cqMax) ELSE cq
       IN /\ pend' = pend \ {p}
          /\ cq' = nq
          /\ cdr' = MarkInterf(cdr, 0, nq # cq)
          /\ lastR' = 0
          /\ lastEv' = p.e
          /\ lastHook' = p.hook
          /\ sentEv' = p.toSend
          /\ lastTr' = trRes
          /\ lastTrOut' = tr
          /\ lastRes' = res
          /\ lastOut' = out
          /\ qRun' = IF qRun >= 0 /\ out = "queued" /\ p.e.id = qRun + 1
                      THEN qRun + 1 ELSE -1
          /\ firstRes' = IF firstRes # <<>> THEN firstRes
                         ELSE <<Shape(res, p.e), out>>
  /\ lastAct' = "settle"
  /\ qBefore' = cq
  /\ lastDrain' = NoDR
  /\ lastHealth' = NoHealth
  /\ UNCHANGED <<rate, qOn, cqMax, nextId, capMax, hookRes, nRuns, drained>>

DrainStartNoEmptyCheck(k) ==
  /\ cdr[k].pc = "idle"
  /\ nRuns < MaxCRuns
  /\ nRuns' = nRuns + 1
  /\ IF ~qOn
       THEN /\ lastDrain' = [NoDR EXCEPT !.kind = "noop", !.startQ = cq]
            /\ lastAct' = "drainNoop"
            /\ UNCHANGED cdr
       ELSE /\ cdr' = [cdr EXCEPT ![k] = [CNoDrain EXCEPT !.pc = "probing", !.startQ = cq]]
            /\ lastDrain' = NoDR
            /\ lastAct' = "drainStart"
  /\ qBefore' = cq
  /\ lastHealth' = NoHealth
  /\ CapReset
  /\ UNCHANGED <<rate, qOn, cq, cqMax, nextId, capMax, hookRes, pend, drained, qRun, firstRes>>

\* processQueue entry: "if (!this.queue || this.queue.isEmpty) return",
\* otherwise suspend on transport.isOnline()
DrainStart(k) ==
  /\ cdr[k].pc = "idle"
  /\ nRuns < MaxCRuns
  /\ nRuns' = nRuns + 1
  /\ IF ~qOn \/ cq = <<>>
       THEN /\ lastDrain' = [NoDR EXCEPT !.kind = "noop", !.startQ = cq]
            /\ lastAct' = "drainNoop"
            /\ UNCHANGED cdr
       ELSE /\ cdr' = [cdr EXCEPT ![k] = [CNoDrain EXCEPT !.pc = "probing", !.startQ = cq]]
            /\ lastDrain' = NoDR
            /\ lastAct' = "drainStart"
  /\ qBefore' = cq
  /\ lastHealth' = NoHealth
  /\ CapReset
  /\ UNCHANGED <<rate, qOn, cq, cqMax, nextId, capMax, hookRes, pend, drained, qRun, firstRes>>

\* the 30 s interval (set only when the queue exists) calls processQueue
TimerTick ==
  /\ qOn
  /\ \E k \in CDrainSlots : DrainStart(k)

\* flush(): await processQueue()
Flush == \E k \in CDrainSlots : DrainStart(k)

\* isOnline() resolves with health outcome h; offline => return, online =>
\* events = queue.getAll() (the queue as it is now)
DrainProbe(k) ==
  /\ cdr[k].pc = "probing"
  /\ \E h \in HealthOutcomes :
       /\ lastHealth' = [h |-> h, k |-> k]
       /\ IF IsOnline(h)
            THEN /\ cdr' = [cdr EXCEPT ![k].pc = "sending", ![k].snap = cq,
                                       ![k].i = 1, ![k].probed = TRUE]
                 /\ drained' = TRUE
                 /\ lastDrain' = NoDR
                 /\ lastAct' = "drainProbe"
            ELSE /\ cdr' = [cdr EXCEPT ![k] = CNoDrain]
                 /\ lastDrain' = DR([cdr[k] EXCEPT !.probed = TRUE], "offline")
                 /\ lastAct' = "drainOffline"
                 /\ UNCHANGED drained
  /\ qBefore' = cq
  /\ CapReset
  /\ UNCHANGED <<rate, qOn, cq, cqMax, nextId, capMax, hookRes, pend, nRuns, qRun, firstRes>>

\* one loop iteration: await transport.send(event); remove on success
DrainSend(k) ==
  /\ cdr[k].pc = "sending"
  /\ cdr[k].i <= Len(cdr[k].snap)
  /\ \E tr \in TrOutcomes :
       LET id == cdr[k].snap[cdr[k].i].id
           ok == TransportSend(cdr[k].snap[cdr[k].i], tr).success
           nq == IF ok THEN Remove(cq, id) ELSE cq
       IN /\ cq' = nq
          /\ cdr' = [MarkInterf(cdr, k, nq # cq) EXCEPT
                       ![k].sent = Append(@, id),
                       ![k].succ = IF ok THEN @ \cup {id} ELSE @,
                       ![k].i = @ + 1]
  /\ lastAct' = "drainSend"
  /\ qBefore' = cq
  /\ lastDrain' = NoDR
  /\ lastHealth' = NoHealth
  /\ CapReset
  /\ UNCHANGED <<rate, qOn, cqMax, nextId, capMax, hookRes, pend, nRuns, drained, qRun, firstRes>>

\* loop exhausted: processQueue resolves
DrainEnd(k) ==
  /\ cdr[k].pc = "sending"
  /\ cdr[k].i > Len(cdr[k].snap)
  /\ cdr' = [cdr EXCEPT ![k] = CNoDrain]
  /\ lastDrain' = DR(cdr[k], "done")
  /\ lastAct' = "drainEnd"
  /\ qBefore' = cq
  /\ lastHealth' = NoHealth
  /\ CapReset
  /\ UNCHANGED <<rate, qOn, cq, cqMax, nextId, capMax, hookRes, pend, nRuns, drained, qRun, firstRes>>


\* ---------------------------------------------------------------- Journey / Step
JIds == 1..MaxJourneys
\* a user value; "none" is undefined
Users == {"u1", "u2"}
NoUser == "none"

\* no Step / Journey status write in this step (a: the call, j: its journey,
\* s: the step it wrote, how: the status, again: it overwrote a terminal status
\* or ended an already finished journey)
NoJAct == [a |-> "other", j |-> 0, s |-> 0, how |-> "none", again |-> FALSE]

\* the log is not kept (it stays JOff throughout)
JOff == [NoJAct EXCEPT !.a = "off"]

\* the next log entry, when the log is kept
JLog(x) == IF jAct.a = "off" THEN jAct ELSE x

\* the context after construction, with the status-write log act
JInitWith(act) ==
  /\ curJ = 0
  /\ nJ = 0
  /\ jComp = [j \in JIds |-> FALSE]
  /\ jFail = [j \in JIds |-> FALSE]
  /\ jUser = [j \in JIds |-> NoUser]
  /\ jMeta = [j \in JIds |-> 0]
  /\ jCurStep = [j \in JIds |-> 0]
  /\ steps = <<>>
  /\ cUser = NoUser
  /\ tags = 0
  /\ extra = 0
  /\ events = <<>>
  /\ disposed = {}
  /\ lastDisposed = 0
  /\ tracks = <<>>
  /\ jStartUser = [j \in JIds |-> NoUser]
  /\ jAct = act

JInit == JInitWith(JOff)

JIdle == JInit

\* Journey.isComplete
IsComplete(j) == jComp[j] \/ jFail[j]

JourneyStartStepNoClose(j) ==
  /\ steps' = Append(steps, [j |-> j, st |-> "in_progress", ended |-> FALSE])
  /\ jCurStep' = [jCurStep EXCEPT ![j] = Len(steps) + 1]

\* Journey.startStep(name): complete an in_progress current step, push a new
\* in_progress step and make it current (steps' and jCurStep' of journey j)
JourneyStartStep(j) ==
  LET c == jCurStep[j]
      closed == IF c # 0 /\ steps[c].st = "in_progress"
                  THEN [steps EXCEPT ![c].st = "completed", ![c].ended = TRUE]
                  ELSE steps
      newSteps == Append(closed, [j |-> j, st |-> "in_progress", ended |-> FALSE])
  IN /\ steps' = newSteps
     /\ jCurStep' = [jCurStep EXCEPT ![j] = Len(newSteps)]

JourneyEndAlwaysComplete(j, how) ==
  LET c == jCurStep[j]
  IN /\ steps' = IF c # 0 /\ steps[c].st = "in_progress"
                   THEN [steps EXCEPT ![c].st = "completed", ![c].ended = TRUE]
                   ELSE steps
     /\ IF how = "completed"
          THEN jComp' = [jComp EXCEPT ![j] = TRUE] /\ UNCHANGED jFail
          ELSE jFail' = [jFail EXCEPT ![j] = TRUE] /\ UNCHANGED jComp

\* Journey.complete() / Journey.fail(): close an in_progress current step,
\* then set the flag
JourneyEnd(j, how) ==
  LET c == jCurStep[j]
  IN /\ steps' = IF c # 0 /\ steps[c].st = "in_progress"
                   THEN [steps EXCEPT ![c].st = how, ![c].ended = TRUE]
                   ELSE steps
     /\ IF how = "completed"
          THEN jComp' = [jComp EXCEPT ![j] = TRUE] /\ UNCHANGED jFail
          ELSE jFail' = [jFail EXCEPT ![j] = TRUE] /\ UNCHANGED jComp

\* Step.complete() / Step.fail(): unconditional status write
StepSet(st, s, how) == [st EXCEPT ![s].st = how, ![s].ended = TRUE]

\* Journey.complete() / fail() of journey j; rep: j was already complete and
\* its current step was still in_progress before the call
JEndAct(j, how) ==
  [NoJAct EXCEPT !.a = "journeyEnd", !.j = j, !.how = how,
                 !.again = IsComplete(j) /\ jCurStep[j] # 0
                         /\ steps[jCurStep[j]].st = "in_progress"]

\* TelemetryClient.startJourney(name)
StartJourney ==
  /\ nJ < MaxJourneys
  /\ LET j == nJ + 1
     IN /\ nJ' = j
        /\ curJ' = j
        /\ jUser' = [jUser EXCEPT ![j] = cUser]
        /\ jStartUser' = [jStartUser EXCEPT ![j] = cUser]
  /\ lastDisposed' = 0
  /\ jAct' = JLog(NoJAct)
  /\ UNCHANGED <<jComp, jFail, jMeta, jCurStep, steps, cUser, tags, extra,
                 events, disposed, tracks>>

\* TelemetryClient.startStep(name): throws without a current journey
ClientStartStep ==
  /\ curJ # 0
  /\ Len(steps) < MaxSteps
  /\ JourneyStartStep(curJ)
  /\ lastDisposed' = 0
  /\ jAct' = JLog(NoJAct)
  /\ UNCHANGED <<curJ, nJ, jComp, jFail, jUser, jMeta, cUser, tags, extra,
                 events, disposed, tracks, jStartUser>>

\* Journey.startStep(name) on a held Journey (JourneyScope.getJourney() or
\* Step.getJourney()), whether or not it is the client's current journey
JourneyHandleStartStep ==
  /\ Len(steps) < MaxSteps
  /\ \E j \in 1..nJ : JourneyStartStep(j)
  /\ lastDisposed' = 0
  /\ jAct' = JLog(NoJAct)
  /\ UNCHANGED <<curJ, nJ, jComp, jFail, jUser, jMeta, cUser, tags, extra,
                 events, disposed, tracks, jStartUser>>

\* Step.complete() / Step.fail() on a held Step handle
StepEnd ==
  /\ \E s \in 1..Len(steps), how \in {"completed", "failed"} :
       /\ steps' = StepSet(steps, s, how)
       /\ jAct' = JLog([NoJAct EXCEPT !.a = "stepSet", !.s = s,
                                       !.again = steps[s].st \notin {"in_progress", how}])
  /\ lastDisposed' = 0
  /\ UNCHANGED <<curJ, nJ, jComp, jFail, jUser, jMeta, jCurStep, cUser, tags,
                 extra, events, disposed, tracks, jStartUser>>

StepScopeDisposeUnguarded ==
  /\ \E s \in 1..Len(steps) : steps' = StepSet(steps, s, "completed")
  /\ lastDisposed' = 0
  /\ jAct' = JLog(NoJAct)
  /\ UNCHANGED <<curJ, nJ, jComp, jFail, jUser, jMeta, jCurStep, cUser, tags,
                 extra, events, disposed, tracks, jStartUser>>

\* StepScope[Symbol.dispose](): complete if still in_progress
StepScopeDispose ==
  /\ \E s \in 1..Len(steps) :
       steps' = IF steps[s].st = "in_progress"
                  THEN StepSet(steps, s, "completed") ELSE steps
  /\ lastDisposed' = 0
  /\ jAct' = JLog(NoJAct)
  /\ UNCHANGED <<curJ, nJ, jComp, jFail, jUser, jMeta, jCurStep, cUser, tags,
                 extra, events, disposed, tracks, jStartUser>>

\* Journey.complete() / Journey.fail() on a held Journey
JourneyFinish ==
  /\ \E j \in 1..nJ, how \in {"completed", "failed"} :
       JourneyEnd(j, how) /\ jAct' = JLog(JEndAct(j, how))
  /\ lastDisposed' = 0
  /\ UNCHANGED <<curJ, nJ, jUser, jMeta, jCurStep, cUser, tags, extra, events,
                 disposed, tracks, jStartUser>>

JourneyScopeDisposeNoDetach ==
  /\ \E j \in 1..nJ :
       /\ IF ~IsComplete(j)
            THEN JourneyEnd(j, "completed")
            ELSE UNCHANGED <<steps, jComp, jFail>>
       /\ disposed' = disposed \cup {j}
       /\ lastDisposed' = j
       /\ jAct' = JLog(IF ~IsComplete(j) THEN JEndAct(j, "completed") ELSE NoJAct)
  /\ UNCHANGED <<curJ, nJ, jUser, jMeta, jCurStep, cUser, tags, extra, events, tracks, jStartUser>>

\* JourneyScope[Symbol.dispose](): complete unless isComplete, then the
\* startJourney callback "this.currentJourney = undefined"
JourneyScopeDispose ==
  /\ \E j \in 1..nJ :
       /\ IF ~IsComplete(j)
            THEN JourneyEnd(j, "completed")
            ELSE UNCHANGED <<steps, jComp, jFail>>
       /\ curJ' = 0
       /\ disposed' = disposed \cup {j}
       /\ lastDisposed' = j
       /\ jAct' = JLog(IF ~IsComplete(j) THEN JEndAct(j, "completed") ELSE NoJAct)
  /\ UNCHANGED <<nJ, jUser, jMeta, jCurStep, cUser, tags, extra, events, tracks, jStartUser>>


SetUserIntoJourney ==
  /\ \E u \in Users \cup {NoUser} :
       /\ cUser' = u
       /\ jUser' = IF curJ # 0 THEN [jUser EXCEPT ![curJ] = u] ELSE jUser
  /\ lastDisposed' = 0
  /\ jAct' = JLog(NoJAct)
  /\ UNCHANGED <<curJ, nJ, jComp, jFail, jMeta, jCurStep, steps, tags,
                 extra, events, disposed, tracks, jStartUser>>

\* TelemetryClient.setUser(id, ...) / clearUser()
SetUser ==
  /\ \E u \in Users \cup {NoUser} : cUser' = u
  /\ lastDisposed' = 0
  /\ jAct' = JLog(NoJAct)
  /\ UNCHANGED <<curJ, nJ, jComp, jFail, jUser, jMeta, jCurStep, steps, tags,
                 extra, events, disposed, tracks, jStartUser>>

\* Journey.setUser(id, ...) on a held Journey
JourneySetUser ==
  /\ \E j \in 1..nJ, u \in Users :
       /\ jUser' = [jUser EXCEPT ![j] = u]
       /\ jStartUser' = [jStartUser EXCEPT ![j] = "replaced"]
  /\ lastDisposed' = 0
  /\ jAct' = JLog(NoJAct)
  /\ UNCHANGED <<curJ, nJ, jComp, jFail, jMeta, jCurStep, steps, cUser, tags,
                 extra, events, disposed, tracks>>

\* Journey.setMetadata(key, value): "this.metadata[key] = value" mutates the
\* live metadata object in place (jMeta[j] is its content)
SetMetadata ==
  /\ \E j \in 1..nJ :
       /\ jMeta[j] < MaxWrites
       /\ jMeta' = [jMeta EXCEPT ![j] = jMeta[j] + 1]
  /\ lastDisposed' = 0
  /\ jAct' = JLog(NoJAct)
  /\ UNCHANGED <<curJ, nJ, jComp, jFail, jUser, jCurStep, steps, cUser, tags,
                 extra, events, disposed, tracks, jStartUser>>

\* TelemetryClient.setTag / setExtra mutate this.tags / this.extra in place
SetTagOrExtra ==
  /\ \/ tags < MaxWrites /\ tags' = tags + 1 /\ UNCHANGED extra
     \/ extra < MaxWrites /\ extra' = extra + 1 /\ UNCHANGED tags
  /\ lastDisposed' = 0
  /\ jAct' = JLog(NoJAct)
  /\ UNCHANGED <<curJ, nJ, jComp, jFail, jUser, jMeta, jCurStep, steps, cUser,
                 events, disposed, tracks, jStartUser>>

EventUserClientFirst(cj, ju, cu) ==
  IF cu # NoUser THEN cu ELSE IF cj # 0 THEN ju[cj] ELSE NoUser

\* the most recently pushed step of journey j (0 if none)
LatestStep(j) ==
  LET S == {s \in 1..Len(steps) : steps[s].j = j}
  IN IF S = {} THEN 0 ELSE CHOOSE s \in S : \A t \in S : t <= s

\* the user createEvent attaches: "this.currentJourney?.getUser() ?? this.user"
EventUserClientOnly(cj, ju, cu) == cu

EventUser(cj, ju, cu) == IF cj # 0 /\ ju[cj] # NoUser THEN ju[cj] ELSE cu

\* TelemetryClient.createEvent (reached by captureException / captureMessage):
\* tags and extra are spread copies; journey is getContext(), whose metadata
\* field is the journey's live metadata object (a reference to journey curJ)
BuildEvent ==
  /\ Len(events) < MaxEvents
  /\ events' = Append(events,
       [jctx |-> curJ,
        step |-> IF curJ # 0 THEN jCurStep[curJ] ELSE 0,
        metaAt |-> IF curJ # 0 THEN jMeta[curJ] ELSE 0,
        user |-> EventUser(curJ, jUser, cUser),
        jUserAt |-> IF curJ # 0 THEN jUser[curJ] ELSE "nocur",
        jStartAt |-> IF curJ # 0 THEN jStartUser[curJ] ELSE "nocur",
        cUserAt |-> cUser,
        tags |-> tags,
        extra |-> extra,
        active |-> \E j \in 1..nJ : ~IsComplete(j),
        disposedAt |-> disposed,
        latest |-> IF curJ # 0 THEN LatestStep(curJ) ELSE 0])
  /\ lastDisposed' = 0
  /\ jAct' = JLog(NoJAct)
  /\ UNCHANGED <<curJ, nJ, jComp, jFail, jUser, jMeta, jCurStep, steps, cUser,
                 tags, extra, disposed, tracks, jStartUser>>

\* trackStep / trackStepAsync entry: startStep(name) (throws 'No active
\* journey' when there is no current journey, before fn is called), then fn
TrackStart ==
  /\ Len(tracks) < MaxTracks
  /\ \E kind \in {"sync", "async"} :
       IF curJ = 0
         THEN /\ tracks' = Append(tracks, [step |-> 0, kind |-> kind, pc |-> "threw",
                                           fn |-> 0, exitSt |-> "none"])
              /\ UNCHANGED <<steps, jCurStep>>
         ELSE /\ Len(steps) < MaxSteps
              /\ JourneyStartStep(curJ)
              /\ tracks' = Append(tracks, [step |-> Len(steps) + 1, kind |-> kind,
                                           pc |-> IF kind = "sync" THEN "running"
                                                                   ELSE "calling",
                                           fn |-> 1, exitSt |-> "none"])
  /\ lastDisposed' = 0
  /\ jAct' = JLog(NoJAct)
  /\ UNCHANGED <<curJ, nJ, jComp, jFail, jUser, jMeta, cUser, tags, extra,
                 events, disposed, jStartUser>>

\* tracked calls on the call stack: a running trackStep, and a trackStepAsync
\* whose fn() call has not yet returned its promise ("calling")
OnStack(u) == \/ tracks[u].kind = "sync" /\ tracks[u].pc = "running"
              \/ tracks[u].pc = "calling"

\* no tracked call started after t is still on the call stack
Innermost(t) == \A u \in t + 1..Len(tracks) : ~OnStack(u)

\* a tracked fn may finish: a sync one once every tracked call it made has
\* returned or yielded (trackStepAsync calls it started may still be pending);
\* an async one resumes from "await fn()" only when the call stack is empty
MayFinish(t) ==
  /\ tracks[t].pc = "running"
  /\ IF tracks[t].kind = "sync"
       THEN Innermost(t)
       ELSE \A u \in 1..Len(tracks) : ~OnStack(u)

\* trackStepAsync: fn() returns its promise and "await" suspends
TrackYield ==
  /\ \E t \in 1..Len(tracks) :
       /\ tracks[t].pc = "calling"
       /\ Innermost(t)
       /\ tracks' = [tracks EXCEPT ![t].pc = "running"]
  /\ lastDisposed' = 0
  /\ jAct' = JLog(NoJAct)
  /\ UNCHANGED <<curJ, nJ, jComp, jFail, jUser, jMeta, jCurStep, steps, cUser,
                 tags, extra, events, disposed, jStartUser>>

\* fn returned: step[Symbol.dispose]() then return the result
TrackReturn ==
  /\ \E t \in 1..Len(tracks) :
       /\ MayFinish(t)
       /\ LET s == tracks[t].step
              st2 == IF steps[s].st = "in_progress"
                       THEN StepSet(steps, s, "completed") ELSE steps
          IN /\ steps' = st2
             /\ tracks' = [tracks EXCEPT ![t].pc = "returned",
                                         ![t].exitSt = st2[s].st]
  /\ lastDisposed' = 0
  /\ jAct' = JLog(NoJAct)
  /\ UNCHANGED <<curJ, nJ, jComp, jFail, jUser, jMeta, jCurStep, cUser, tags,
                 extra, events, disposed, jStartUser>>

\* fn threw: step.getStep().fail() then rethrow (a trackStepAsync fn may also
\* throw before returning its promise, and then the catch runs at once)
TrackThrow ==
  /\ \E t \in 1..Len(tracks) :
       /\ MayFinish(t) \/ (tracks[t].pc = "calling" /\ Innermost(t))
       /\ LET s == tracks[t].step
              st2 == StepSet(steps, s, "failed")
          IN /\ steps' = st2
             /\ tracks' = [tracks EXCEPT ![t].pc = "threw",
                                         ![t].exitSt = st2[s].st]
             /\ jAct' = JLog([NoJAct EXCEPT !.a = "trackFail", !.s = s,
                                             !.again = steps[s].st = "completed"])
  /\ lastDisposed' = 0
  /\ UNCHANGED <<curJ, nJ, jComp, jFail, jUser, jMeta, jCurStep, cUser, tags,
                 extra, events, disposed, jStartUser>>

\* ---------------------------------------------------------------- persisted round trip
\* JavaScript values reachable from a queued event: undefined, null, strings
\* (user strings and the ISO-8601 strings toISOString produces), numbers, NaN,
\* valid and invalid Date objects, plain objects and arrays
U == [t |-> "undef"]
NullV == [t |-> "null"]
StrV(k) == [t |-> "str", v |-> k]
IsoStr(ms) == [t |-> "iso", v |-> ms]
NumV(n) == [t |-> "num", v |-> n]
NaNV == [t |-> "nan"]
DateV(ms) == [t |-> "date", v |-> ms]
InvalidDate == [t |-> "invdate"]
Obj(f) == [t |-> "obj", f |-> f]
Arr(a) == [t |-> "arr", a |-> a]

Get(o, k) == IF k \in DOMAIN o.f THEN o.f[k] ELSE U

\* object spread { ...o, k: v }
Override(o, k, v) == Obj([x \in DOMAIN o.f \cup {k} |-> IF x = k THEN v ELSE o.f[x]])

\* JSON.stringify / JSON.parse: Date.prototype.toJSON gives toISOString() for a
\* valid date and null for an invalid one, NaN becomes null, undefined object
\* members are dropped and undefined array elements become null
RECURSIVE Wire(_)
Wire(v) ==
  CASE v.t = "date" -> IsoStr(v.v)
    [] v.t \in {"invdate", "nan"} -> NullV
    [] v.t = "obj" ->
         Obj([k \in {x \in DOMAIN v.f : Wire(v.f[x]).t # "undef"} |-> Wire(v.f[k])])
    [] v.t = "arr" ->
         Arr([i \in DOMAIN v.a |-> IF Wire(v.a[i]).t = "undef" THEN NullV
                                   ELSE Wire(v.a[i])])
    [] OTHER -> v

\* new Date(x as string) on a parsed JSON value
NewDate(w) ==
  CASE w.t = "iso" -> DateV(w.v)
    [] w.t = "null" -> DateV(0)
    [] w.t = "num" -> DateV(w.v)
    [] OTHER -> InvalidDate

Truthy(v) == v.t \in {"obj", "arr", "iso", "date", "invdate"}
             \/ (v.t = "num" /\ v.v # 0) \/ v.t = "str"

DeserializeEventNoJourneyDate(d) ==
  LET bcs == Get(d, "breadcrumbs")
      bcArr == IF bcs.t \in {"undef", "null"} THEN <<>> ELSE bcs.a
      nb == Arr([i \in DOMAIN bcArr |->
                   Override(bcArr[i], "timestamp", NewDate(Get(bcArr[i], "timestamp")))])
      j == Get(d, "journey")
      nj == IF Truthy(j) THEN j ELSE U
  IN Override(Override(Override(d, "timestamp", NewDate(Get(d, "timestamp"))),
                       "breadcrumbs", nb), "journey", nj)

\* OfflineQueue.deserializeEvent: revives timestamp, every breadcrumb timestamp
\* and journey.startedAt; every other member keeps its parsed JSON value
DeserializeEvent(d) ==
  LET bcs == Get(d, "breadcrumbs")
      bcArr == IF bcs.t \in {"undef", "null"} THEN <<>> ELSE bcs.a
      nb == Arr([i \in DOMAIN bcArr |->
                   Override(bcArr[i], "timestamp", NewDate(Get(bcArr[i], "timestamp")))])
      j == Get(d, "journey")
      nj == IF Truthy(j)
            THEN Override(j, "startedAt", NewDate(Get(j, "startedAt")))
            ELSE U
  IN Override(Override(Override(d, "timestamp", NewDate(Get(d, "timestamp"))),
                       "breadcrumbs", nb), "journey", nj)

\* save() of a queue holding e, then load() in a new OfflineQueue
RoundTrip(e) == DeserializeEvent(Wire(e))

\* structural identity where an undefined member equals an absent one
RECURSIVE Canon(_)
Canon(v) ==
  CASE v.t = "obj" ->
         Obj([k \in {x \in DOMAIN v.f : v.f[x].t # "undef"} |-> Canon(v.f[k])])
    [] v.t = "arr" -> Arr([i \in DOMAIN v.a |-> Canon(v.a[i])])
    [] OTHER -> v

\* values that JSON represents faithfully (an undefined object member is
\* dropped, which Canon treats as absent; an undefined array element becomes
\* null, which is a change)
RECURSIVE JsonVal(_)
JsonVal(v) ==
  CASE v.t = "obj" -> \A k \in DOMAIN v.f : JsonVal(v.f[k])
    [] v.t = "arr" -> \A i \in DOMAIN v.a : v.a[i].t # "undef" /\ JsonVal(v.a[i])
    [] OTHER -> v.t \in {"undef", "null", "str", "iso", "num"}

\* events as createEvent / addBreadcrumb / Journey.getContext build them, or a
\* beforeSend hook returns them: Date timestamps (a caller-supplied breadcrumb
\* timestamp, or one a hook sets, may be an invalid Date), user-supplied
\* breadcrumb data and journey metadata
TsInputs == {DateV(0), DateV(1), InvalidDate}
DataVals == {U, StrV(1), NumV(2), NaNV, DateV(1)}
MetaVals == {U, StrV(1), DateV(1)}
BcIn(ts, v) == Obj("timestamp" :> ts @@ "message" :> StrV(1)
               @@ "data" :> Obj("k" :> v))
JourneyIn(cs, mv, st) == Obj("journeyId" :> StrV(3) @@ "name" :> StrV(2)
                             @@ "currentStep" :> cs @@ "metadata" :> Obj("k" :> mv)
                             @@ "startedAt" :> st)
EventIn(ts, bcs, j) == Obj("eventId" :> StrV(4) @@ "timestamp" :> ts
                           @@ "breadcrumbs" :> Arr(bcs) @@ "journey" :> j)
RtInputs == { EventIn(ts, bcs, j) :
               ts \in TsInputs,
               bcs \in {<<>>} \cup {<<BcIn(bt, v)>> : bt \in {DateV(1), InvalidDate},
                                                   v \in DataVals},
               j \in {U} \cup {JourneyIn(cs, mv, st) : cs \in {U, StrV(2)}, mv \in MetaVals,
                                                    st \in {DateV(0), InvalidDate}} }

RtInit == rtIn \in RtInputs /\ rtOut = U /\ rtDone = FALSE
RtIdle == rtIn = U /\ rtOut = U /\ rtDone = FALSE

RtRoundTrip ==
  /\ ~rtDone
  /\ rtOut' = RoundTrip(rtIn)
  /\ rtDone' = TRUE
  /\ UNCHANGED rtIn

\* ---------------------------------------------------------------- overlapping drains
\* TelemetryClient with the offline queue enabled: the 30 s interval timer and
\* flush() both run processQueue(); drains interleave at their await points
\* (isOnline, each send). A drain slot holds one running processQueue call.
DrainSlots == 1..MaxDrains

NoDrain == [pc |-> "idle", by |-> "none", snap |-> <<>>, i |-> 1, sent |-> <<>>,
            succ |-> {}, seen |-> {}, lost |-> {}, postClose |-> FALSE]

Running(k) == drains[k].pc # "idle"

\* new TelemetryClient(options): the OfflineQueue constructor's load() brings
\* in the events an earlier session persisted
DInit ==
  /\ dq \in {[i \in 1..n |-> Ev(10 + i, FALSE)] : n \in 0..MaxDLoaded}
  /\ dqMax \in 0..MaxDqCap
  /\ nCap = 0
  /\ timerOn = TRUE
  /\ clientClosed = FALSE
  /\ good = FALSE
  /\ drains = [k \in DrainSlots |-> NoDrain]
  /\ dupSend = FALSE

DIdle ==
  /\ dq = <<>> /\ dqMax = 0 /\ nCap = 0 /\ timerOn = FALSE /\ clientClosed = FALSE
  /\ good = FALSE /\ drains = <<>> /\ dupSend = FALSE

\* a capture whose Transport.send failed: sendEvent enqueues it (evicting the
\* oldest entry at capacity); once the environment is good every send succeeds
\* and captures no longer reach the queue
DCapture ==
  /\ ~good
  /\ nCap < MaxDCaps
  /\ LET e == Ev(nCap + 1, FALSE)
         ev == IF Len(dq) >= dqMax /\ Len(dq) > 0 THEN {dq[1].id} ELSE {}
     IN /\ dq' = Enqueue(dq, e, dqMax)
        /\ drains' = [m \in DrainSlots |->
                        IF Running(m)
                          THEN [drains[m] EXCEPT !.seen = @ \cup {e.id},
                                                 !.lost = @ \cup ev]
                          ELSE drains[m]]
  /\ nCap' = nCap + 1
  /\ UNCHANGED <<dqMax, timerOn, clientClosed, good, dupSend>>

\* processQueue() entry: return at once on an empty queue, else await isOnline
DStart(k, by) ==
  /\ drains[k].pc = "idle"
  /\ drains' = [drains EXCEPT ![k] = [NoDrain EXCEPT
                  !.by = by, !.postClose = clientClosed,
                  !.pc = IF dq = <<>> THEN "idle" ELSE "probing"]]
  /\ UNCHANGED <<dq, dqMax, nCap, timerOn, clientClosed, good, dupSend>>

\* the setInterval callback; clearInterval stops it
DTimerStart(k) == timerOn /\ DStart(k, "timer")

\* flush(): await this.processQueue()
DFlushStart(k) == DStart(k, "flush")

DProbeOffline(k) ==
  /\ drains[k].pc = "probing"
  /\ drains' = [drains EXCEPT ![k] = NoDrain]
  /\ UNCHANGED <<dq, dqMax, nCap, timerOn, clientClosed, good, dupSend>>

\* isOnline() resolves: offline returns, online snapshots getAll()
DProbe(k) ==
  /\ drains[k].pc = "probing"
  /\ \E online \in IF good THEN {TRUE} ELSE BOOLEAN :
       drains' = [drains EXCEPT ![k] = IF online
                                         THEN [drains[k] EXCEPT !.pc = "sending",
                                                                !.snap = dq]
                                         ELSE NoDrain]
  /\ UNCHANGED <<dq, dqMax, nCap, timerOn, clientClosed, good, dupSend>>

DrainSendStepNoAdvance(d, ok) ==
  [d EXCEPT !.sent = Append(@, d.snap[d.i].id),
            !.succ = IF ok THEN @ \cup {d.snap[d.i].id} ELSE @]

\* one loop iteration's bookkeeping: the event passed to send, and the next index
DrainSendStep(d, ok) ==
  [d EXCEPT !.sent = Append(@, d.snap[d.i].id),
            !.succ = IF ok THEN @ \cup {d.snap[d.i].id} ELSE @,
            !.i = @ + 1]

\* await transport.send(event); on success queue.remove(event.eventId)
DSend(k) ==
  /\ drains[k].pc = "sending"
  /\ drains[k].i <= Len(drains[k].snap)
  /\ \E ok \in IF good THEN {TRUE} ELSE BOOLEAN :
       LET id == drains[k].snap[drains[k].i].id
           gone == ok /\ id \in Range(Ids(dq))
       IN /\ dq' = IF ok THEN Remove(dq, id) ELSE dq
          /\ drains' = [m \in DrainSlots |->
                          IF m = k THEN DrainSendStep(drains[k], ok)
                          ELSE IF Running(m) /\ gone
                            THEN [drains[m] EXCEPT !.lost = @ \cup {id}]
                            ELSE drains[m]]
          /\ dupSend' = (dupSend \/ \E m \in DrainSlots \ {k} :
                                      Running(m) /\ id \in Range(drains[m].sent))
  /\ UNCHANGED <<dqMax, nCap, timerOn, clientClosed, good>>

DEndClearQueue(k) ==
  /\ drains[k].pc = "sending"
  /\ drains[k].i > Len(drains[k].snap)
  /\ drains' = [drains EXCEPT ![k] = NoDrain]
  /\ dq' = <<>>
  /\ UNCHANGED <<dqMax, nCap, timerOn, clientClosed, good, dupSend>>

\* the for loop ends: processQueue() returns (the slot is free again)
DEnd(k) ==
  /\ drains[k].pc = "sending"
  /\ drains[k].i > Len(drains[k].snap)
  /\ drains' = [drains EXCEPT ![k] = NoDrain]
  /\ UNCHANGED <<dq, dqMax, nCap, timerOn, clientClosed, good, dupSend>>

CloseNoClear ==
  /\ ~clientClosed
  /\ clientClosed' = TRUE
  /\ UNCHANGED <<dq, dqMax, nCap, timerOn, good, drains, dupSend>>

\* close(): clearInterval(this.flushInterval) only
Close ==
  /\ ~clientClosed
  /\ clientClosed' = TRUE
  /\ timerOn' = FALSE
  /\ UNCHANGED <<dq, dqMax, nCap, good, drains, dupSend>>

\* the environment: from now on the collector is online and every send succeeds
GoodEnv ==
  /\ ~good
  /\ good' = TRUE
  /\ UNCHANGED <<dq, dqMax, nCap, timerOn, clientClosed, drains, dupSend>>

\* ---------------------------------------------------------------- specifications
BcIdle == bc = <<>> /\ bcMax = 0 /\ bcAdded = <<>> /\ bcClr = 0
OqIdle == oq = <<>> /\ oqMax = 0 /\ oqLoaded = <<>> /\ oqEnq = <<>> /\ oqOps = 0
          /\ oqStore = [kind |-> "absent", evs |-> <<>>]
          /\ stored = [kind |-> "absent", evs |-> <<>>] /\ lastSave = "none"
          /\ oqOnlyEnq = TRUE
CIdle == /\ rate = 0 /\ qOn = FALSE /\ cq = <<>> /\ cqMax = 0 /\ nextId = 1 /\ capMax = 0 /\ hookRes = {}
         /\ pend = {} /\ cdr = [k \in CDrainSlots |-> CNoDrain] /\ nRuns = 0 /\ lastAct = "none"
         /\ lastDrain = NoDR
         /\ drained = FALSE /\ qRun = 0 /\ lastR = 0 /\ lastHook = "none"
         /\ lastEv = NoEv /\ sentEv = NoEv /\ lastTr = NoRes /\ lastRes = NoRes
         /\ lastOut = "none" /\ qBefore = <<>> /\ firstRes = <<>>
         /\ lastTrOut = "none" /\ lastHealth = NoHealth

BcNext == (BcAdd \/ BcAddBreadcrumb \/ BcClear) /\ UNCHANGED <<oqVars, cVars, jVars, rtVars, dVars>>
BcSpecInit == BcInit /\ OqIdle /\ CIdle /\ JIdle /\ RtIdle /\ DIdle
BcSpec == BcSpecInit /\ [][BcNext]_vars

OqNext == (OqEnqueue \/ OqRemove \/ OqClear) /\ UNCHANGED <<bcVars, cVars, jVars, rtVars, dVars>>
OqSpecInit == OqInit /\ BcIdle /\ CIdle /\ JIdle /\ RtIdle /\ DIdle
OqSpec == OqSpecInit /\ [][OqNext]_vars

CNext == (CaptureException \/ CaptureMessage \/ CaptureSettle \/ TimerTick \/ Flush
          \/ \E k \in CDrainSlots : DrainProbe(k) \/ DrainSend(k) \/ DrainEnd(k)) /\ UNCHANGED <<bcVars, oqVars, jVars, rtVars, dVars>>
Init == CInit /\ BcIdle /\ OqIdle /\ JIdle /\ RtIdle /\ DIdle

JSpecInit == JInit /\ BcIdle /\ OqIdle /\ CIdle /\ RtIdle /\ DIdle

\* Journey / Step lifecycle with trackStep / trackStepAsync
StepNext == (StartJourney \/ ClientStartStep \/ JourneyHandleStartStep \/ StepEnd \/ StepScopeDispose
             \/ JourneyFinish \/ JourneyScopeDispose \/ TrackStart \/ TrackYield
             \/ TrackReturn \/ TrackThrow) /\ UNCHANGED <<bcVars, oqVars, cVars, rtVars, dVars>>
StepSpec == JSpecInit /\ [][StepNext]_vars

\* the same lifecycle with at most one trackStep call, the status-write log kept
EndInit == JInitWith(NoJAct) /\ BcIdle /\ OqIdle /\ CIdle /\ RtIdle /\ DIdle
EndNext == StepNext /\ Len(tracks') <= MaxEndTracks
EndSpec == EndInit /\ [][EndNext]_vars

\* journey lifecycle seen by createEvent
LifeNext == (StartJourney \/ ClientStartStep \/ JourneyHandleStartStep \/ JourneyFinish \/ JourneyScopeDispose
             \/ BuildEvent) /\ UNCHANGED <<bcVars, oqVars, cVars, rtVars, dVars>>
LifeSpec == JSpecInit /\ [][LifeNext]_vars

\* ambient context (users, metadata, tags / extra) captured by createEvent
CtxNext == (StartJourney \/ JourneyScopeDispose \/ SetUser \/ JourneySetUser
            \/ SetMetadata \/ SetTagOrExtra \/ BuildEvent)
           /\ UNCHANGED <<bcVars, oqVars, cVars, rtVars, dVars>>
CtxSpec == JSpecInit /\ [][CtxNext]_vars
Spec == Init /\ [][CNext]_vars

\* the client of the three-capture scenario: sampleRate 1.0, offline queue on,
\* nothing persisted, default beforeSend, maxOfflineQueueSize 2
C6Init ==
  /\ CInitFor(MaxC6Captures, 0, {2}) /\ rate = G /\ qOn /\ cqMax = 2 /\ cq = <<>>
  /\ hookRes = {"true"}
  /\ BcIdle /\ OqIdle /\ JIdle /\ RtIdle /\ DIdle

C6Spec == C6Init /\ [][CNext]_vars

\* a client whose queue starts with up to three persisted events, capacity 3
C4Init ==
  /\ CInitFor(MaxC4Captures, MaxC4Loaded, {MaxC4Loaded}) /\ qOn /\ rate = G
  /\ BcIdle /\ OqIdle /\ JIdle /\ RtIdle /\ DIdle

C4Spec == C4Init /\ [][CNext]_vars

\* save() then load() of one queued event
RtNext == RtRoundTrip /\ UNCHANGED <<bcVars, oqVars, cVars, jVars, dVars>>
RtSpecInit == RtInit /\ BcIdle /\ OqIdle /\ CIdle /\ JIdle /\ DIdle
RtSpec == RtSpecInit /\ [][RtNext]_vars

\* captures, timer and flush drains, close() and the environment
DNext == (DCapture \/ (\E k \in DrainSlots : DTimerStart(k) \/ DFlushStart(k)
                         \/ DProbe(k) \/ DSend(k) \/ DEnd(k))
          \/ Close \/ GoodEnv)
         /\ UNCHANGED <<bcVars, oqVars, cVars, jVars, rtVars>>
DSpecInit == DInit /\ BcIdle /\ OqIdle /\ CIdle /\ JIdle /\ RtIdle
DSpec == DSpecInit /\ [][DNext]_vars

\* the interval timer fires while it is set, and a started drain continues
DFairSpec == DSpec /\ \A k \in DrainSlots :
                        /\ WF_vars(DTimerStart(k) /\ UNCHANGED <<bcVars, oqVars, cVars, jVars, rtVars>>)
                        /\ WF_vars(DProbe(k) /\ UNCHANGED <<bcVars, oqVars, cVars, jVars, rtVars>>)
                        /\ WF_vars(DSend(k) /\ UNCHANGED <<bcVars, oqVars, cVars, jVars, rtVars>>)
                        /\ WF_vars(DEnd(k) /\ UNCHANGED <<bcVars, oqVars, cVars, jVars, rtVars>>)

\* ---------------------------------------------------------------- properties

\* C1: for every capacity N >= 0, after any sequence of add / addBreadcrumb
\* calls the snapshot has length <= N and is the last min(N, total added)
\* breadcrumbs in insertion order (counting the adds since the last clear()).
C1_BreadcrumbWindow ==
  LET since == SubSeq(bcAdded, bcClr + 1, Len(bcAdded))
  IN /\ Len(bc) <= bcMax
     /\ bc = SubSeq(since, Len(since) - Min(bcMax, Len(since)) + 1, Len(since))

\* C2: with capacity M >= 1, enqueues on an initially empty queue keep the
\* queue equal to the last min(M, enqueued) events in enqueue order; so with
\* more than M enqueues it holds exactly the M most recent ones.
C2_QueueDropOldest ==
  (oqMax >= 1 /\ oqLoaded = <<>> /\ oqOnlyEnq)
    => /\ oq = SubSeq(oqEnq, Len(oqEnq) - Min(oqMax, Len(oqEnq)) + 1, Len(oqEnq))
       /\ (Len(oqEnq) > oqMax => Len(oq) = oqMax)

C2_Witness ==
  oqMax >= 1 /\ oqLoaded = <<>> /\ oqOnlyEnq /\ Len(oqEnq) > oqMax

\* C3: in every reachable state of an OfflineQueue (also one loaded from
\* storage, also with capacity 0) the length is at most maxOfflineQueueSize.
C3_QueueBounded == Len(oq) <= oqMax

\* a drain's send step removes exactly its own event, and only on success
DrainSendRemovesOwn ==
  \A k \in CDrainSlots :
    (cdr[k].pc = "sending" /\ cdr'[k].i = cdr[k].i + 1)
      => LET id == cdr[k].snap[cdr[k].i].id
         IN cq' = IF id \in cdr'[k].succ THEN Remove(cq, id) ELSE cq

\* C4: an online drain of a queue of K events whose sends succeed for exactly
\* a subset S removes exactly S (each send step removes only its own event on
\* success) and, with no other change to the queue meanwhile, leaves the
\* others in their original relative order.
C4_DrainRemovesSuccesses ==
  /\ [](lastAct = "drainEnd" /\ ~lastDrain.interf =>
          /\ lastDrain.succ \subseteq Range(Ids(lastDrain.startQ))
          /\ cq = SelectSeq(lastDrain.startQ, LAMBDA e : e.id \notin lastDrain.succ))
  /\ [][DrainSendRemovesOwn]_vars

C4_Witness ==
  lastAct = "drainEnd" /\ ~lastDrain.interf /\ lastDrain.succ # {} /\ Len(cq) >= 2

\* C5 (as stated): a drain of an empty queue does nothing (no isOnline probe);
\* offline it sends nothing and leaves the queue unchanged; online it sends
\* every event queued at drain start once, in enqueue order.
C5_DrainOrder ==
  /\ (lastAct \in {"drainNoop", "drainStart"} /\ qBefore = <<>>) => lastAct = "drainNoop"
  /\ lastAct \in {"drainNoop", "drainOffline"} => cq = qBefore
  /\ lastAct = "drainOffline" => lastDrain.sent = <<>>
  /\ lastAct = "drainEnd" => lastDrain.sent = Ids(lastDrain.startQ)

\* C5 (amended): as above, except that the events sent are those in the queue
\* when isOnline() resolves (the getAll() snapshot), each once, in enqueue
\* order, one after the other, each removed right after its own success.
C5_DrainOrderSnapshot ==
  /\ [](/\ (lastAct \in {"drainNoop", "drainStart"} /\ qBefore = <<>>)
             => lastAct = "drainNoop"
        /\ lastAct \in {"drainNoop", "drainOffline"} => cq = qBefore
        /\ lastAct = "drainOffline" => lastDrain.sent = <<>>
        /\ \A k \in CDrainSlots :
             cdr[k].pc = "sending"
               => cdr[k].sent = Ids(SubSeq(cdr[k].snap, 1, cdr[k].i - 1))
        /\ lastAct = "drainEnd" => lastDrain.sent = Ids(lastDrain.snap))
  /\ [][DrainSendRemovesOwn]_vars

C5_Witness ==
  lastAct = "drainEnd" /\ Len(lastDrain.snap) >= 2 /\ lastDrain.succ # {}
  /\ lastDrain.succ # Range(Ids(lastDrain.snap))

\* C6: rate 1.0, queueing on, capacity 2: three failed captures E1, E2, E3
\* leave [E2, E3]; a following online drain where only E3 succeeds leaves [E2].
C6_Scenario ==
  LET cfg == rate = G /\ qOn /\ cqMax = 2
      allQueued == qRun = 3
  IN /\ (cfg /\ allQueued /\ ~drained) => Ids(cq) = <<2, 3>>
     /\ (cfg /\ allQueued /\ lastAct = "drainEnd" /\ ~lastDrain.interf
           /\ Ids(lastDrain.startQ) = <<2, 3>> /\ lastDrain.succ = {3})
          => Ids(cq) = <<2>>

C6_Witness ==
  /\ rate = G /\ qOn /\ cqMax = 2
  /\ qRun = 3
  /\ lastAct = "drainEnd" /\ ~lastDrain.interf
  /\ Ids(lastDrain.startQ) = <<2, 3>> /\ lastDrain.succ = {3}

\* C7: for every draw r in [0,1): rate 0.0 never reaches the hook, the send
\* or the queue; rate 1.0 always reaches the hook and (unless the hook drops)
\* the send; an event is dropped by sampling iff r > rate.
C7_Sampling ==
  lastAct = "capture" =>
    /\ rate = 0 => (lastHook = "none" /\ sentEv = NoEv /\ lastOut = "sampled")
    /\ rate = G => (lastHook # "none"
                   /\ (lastHook \notin {"false", "throw"} => sentEv # NoEv))
    /\ (lastOut = "sampled") <=> (lastR > rate)

\* C7 (amended): the draw r is compared with "greater than": an event is
\* dropped iff r > sampleRate, before the hook and any side effect (no hook
\* call, no send, queue unchanged); rate 1.0 never drops and always reaches the
\* hook and (unless the hook drops it or throws) the send; rate 0.0 drops every
\* draw except r = 0, which proceeds.
C7_SamplingGreaterThan ==
  lastAct = "capture" =>
    /\ (lastOut = "sampled") <=> (lastR > rate)
    /\ lastOut = "sampled" =>
         (lastHook = "none" /\ sentEv = NoEv /\ cq = qBefore)
    /\ lastOut # "sampled" => lastHook # "none"
    /\ (lastOut # "sampled" /\ lastHook \notin {"false", "throw"}) => sentEv # NoEv

\* rate 0.0 and the draw r = 0: the event goes on to the hook
C7_Witness ==
  lastAct = "capture" /\ rate = 0 /\ lastR = 0 /\ lastOut # "sampled"

\* C8: hook false => success result, nothing sent or enqueued; hook true =>
\* the original event is sent; hook returning an object => that object is
\* sent and, on failure with queueing, enqueued.
C8_BeforeSend ==
  lastAct \in {"capture", "settle"} =>
    /\ lastHook = "false" =>
         (lastRes.success /\ lastRes.queued = "undef" /\ sentEv = NoEv
          /\ cq = qBefore)
    /\ lastHook = "true" => sentEv = lastEv
    /\ lastHook = "replace" =>
         /\ sentEv = Ev(lastEv.id, TRUE)
         /\ lastOut = "queued" => (Len(cq) > 0 /\ cq[Len(cq)] = sentEv)

C8_Witness ==
  lastHook = "replace" /\ lastOut = "queued" /\ lastAct = "settle"

\* C9: for a sampled-in, hook-accepted event: send success => that result,
\* queue unchanged; failure with queueing => enqueued exactly once and the
\* failure flagged queued; failure without queueing => the failure as-is,
\* nothing stored.
C9_Delivery ==
  lastAct = "settle" =>
    /\ lastTr.success => (lastRes = lastTr /\ cq = qBefore)
    /\ (~lastTr.success /\ qOn) =>
         /\ lastRes = [lastTr EXCEPT !.queued = "true"]
         /\ Len(cq) >= 1 /\ cq[Len(cq)] = sentEv
         /\ \E k \in 0..1 : SubSeq(cq, 1, Len(cq) - 1) = SubSeq(qBefore, k + 1, Len(qBefore))
         /\ Len(SelectSeq(cq, LAMBDA e : e = sentEv)) = 1
    /\ (~lastTr.success /\ ~qOn) => (lastRes = lastTr /\ cq = qBefore)

C9_Witness == lastOut = "queued" /\ lastAct = "settle" /\ Len(qBefore) > 0

\* C10: the result of a capture tells the caller which outcome happened:
\* sent, dropped (sampling or hook), queued (or failed): any result with the
\* same shape as the first one returned has the same outcome class.
OutcomeClass(o) == IF o \in {"sampled", "hookDropped"} THEN "dropped" ELSE o

C10_ResultDistinguishes ==
  (lastAct \in {"capture", "settle"} /\ lastOut \notin {"pending", "rejected"}
   /\ firstRes # <<>>)
    => (Shape(lastRes, lastEv) = firstRes[1]
          => OutcomeClass(lastOut) = OutcomeClass(firstRes[2]))

\* C11: a throwing beforeSend hook makes the capture's promise reject; no
\* Transport.send happens and the offline queue is unchanged.
C11_HookThrowPropagates ==
  (lastHook = "throw" /\ lastAct = "capture") =>
    /\ lastOut = "rejected"
    /\ lastRes = NoRes
    /\ sentEv = NoEv
    /\ lastTr = NoRes
    /\ cq = qBefore

C11_Witness == lastHook = "throw" /\ lastAct = "capture" /\ Len(qBefore) > 0

\* C12: for every collector outcome Transport.send resolves, reports success
\* exactly on a 2xx status, and on success carries the server's eventId if
\* given, else the client's; isOnline returns true exactly on a 2xx probe.
Is2xx(o) == o \in {"ok2xxId", "ok2xxNoId", "ok2xxEmpty", "ok2xx"}

C12_TransportOutcomes ==
  /\ lastTrOut # "none" =>
       /\ lastTr.success <=> Is2xx(lastTrOut)
       /\ lastTr.success =>
            lastTr.eventId = IF lastTrOut = "ok2xxId" THEN 100 + sentEv.id
                                                      ELSE sentEv.id
  /\ lastHealth.h # "none" =>
       (cdr[lastHealth.k].pc = "sending" <=> Is2xx(lastHealth.h))

\* C13: at most one step of a journey is in_progress; startStep while a step
\* is in_progress first sets it completed with an end time, then makes the
\* new step current and the only in_progress one.
InProgress(j) == {s \in 1..Len(steps) : steps[s].j = j /\ steps[s].st = "in_progress"}

StepStarted ==
  Len(steps') = Len(steps) + 1 =>
    LET n == Len(steps')
        j == steps'[n].j
        c == jCurStep[j]
    IN /\ (c # 0 /\ steps[c].st = "in_progress") =>
            (steps'[c].st = "completed" /\ steps'[c].ended)
       /\ jCurStep'[j] = n
       /\ steps'[n].st = "in_progress"
       /\ {s \in 1..n : steps'[s].j = j /\ steps'[s].st = "in_progress"} = {n}

C13_SingleActiveStep ==
  /\ [](\A j \in JIds : Cardinality(InProgress(j)) <= 1)
  /\ [][StepStarted]_vars

C13_Witness ==
  /\ Len(steps) = 2
  /\ steps[1].j = steps[2].j
  /\ steps[1].st = "completed" /\ steps[1].ended
  /\ steps[2].st = "in_progress"
  /\ jCurStep[steps[2].j] = 2

\* C14: a journey is in exactly one of active, completed, failed; once
\* completed or failed no later operation changes that status.
C14_JourneyTerminal ==
  /\ [](\A j \in JIds : ~(jComp[j] /\ jFail[j]))
  /\ [][\A j \in JIds :
          IsComplete(j) => (jComp'[j] = jComp[j] /\ jFail'[j] = jFail[j])]_vars

\* C15: a step's status only moves from in_progress to completed or failed;
\* a completed or failed step never changes status again.
C15_StepTerminal ==
  [][\A s \in 1..Len(steps) :
       steps[s].st # "in_progress" => steps'[s].st = steps[s].st]_vars

\* C15 (amended): a step starts in_progress and every status change sets an
\* end time; startStep auto-completion, the Journey.complete() / fail()
\* cascade, StepScope disposal and trackStep's success path change only an
\* in_progress step; Step.complete() / Step.fail() themselves (called directly
\* or by trackStep's error handling) write last-write-wins, so only they change
\* a completed or failed step.
C15_StepLastWriteWins ==
  [][/\ \A s \in Len(steps) + 1..Len(steps') : steps'[s].st = "in_progress"
     /\ \A s \in 1..Len(steps) :
          /\ steps'[s].st # steps[s].st => steps'[s].ended
          /\ (steps[s].st # "in_progress" /\ steps'[s] # steps[s])
               => (jAct'.a \in {"stepSet", "trackFail"} /\ jAct'.s = s)]_vars

C15_Witness ==
  /\ jAct.a \in {"stepSet", "trackFail"} /\ jAct.again
  /\ steps[jAct.s].st = "failed"

\* C16: disposing a JourneyScope completes its journey if still active (a
\* finished journey keeps its status) and leaves no current journey referring
\* to it, so events built afterwards carry no context of it.
C16_ScopeDetaches ==
  /\ [][lastDisposed' # 0 =>
          LET j == lastDisposed'
          IN /\ IF IsComplete(j)
                  THEN jComp'[j] = jComp[j] /\ jFail'[j] = jFail[j]
                  ELSE jComp'[j] /\ ~jFail'[j]
             /\ curJ' # j]_vars
  /\ [](/\ \A j \in disposed : curJ # j
        /\ \A i \in 1..Len(events) : events[i].jctx \notin events[i].disposedAt)

C16_Witness ==
  /\ Len(events) = 1
  /\ events[1].disposedAt # {}
  /\ nJ = 2

\* C17: trackStep / trackStepAsync on an initialized client invoke fn exactly
\* once and leave the step completed when fn returns, failed when fn throws.
C17_TrackStep ==
  \A t \in 1..Len(tracks) :
    /\ tracks[t].fn = 1
    /\ tracks[t].pc = "returned" => tracks[t].exitSt = "completed"
    /\ tracks[t].pc = "threw" => tracks[t].exitSt = "failed"

\* C18: once built, an event's breadcrumbs, tags, extra, user and journey
\* snapshot (including metadata) are not changed by later operations.
C18_EventSnapshotFrozen ==
  \A i \in 1..Len(events) :
    events[i].jctx # 0 => jMeta[events[i].jctx] = events[i].metaAt

\* C19: an event carries journey context exactly when built while a journey
\* is active, and its currentStep is that journey's latest started step.
C19_ContextWhileActive ==
  \A i \in 1..Len(events) :
    /\ (events[i].jctx # 0) <=> events[i].active
    /\ events[i].jctx # 0 =>
         events[i].step = events[i].latest

\* C20: the event's user is the current journey's user when it has one, else
\* the client-level user of the latest setUser (undefined after clearUser).
C20_EventUser ==
  \A i \in 1..Len(events) :
    events[i].user = IF events[i].jUserAt \notin {"nocur", NoUser}
                       THEN events[i].jUserAt ELSE events[i].cUserAt

C20_Witness ==
  /\ Len(events) = 1
  /\ events[1].jUserAt \in Users
  /\ events[1].cUserAt \in Users
  /\ events[1].jUserAt # events[1].cUserAt

\* C23: enqueue and remove complete whether storage is available, absent or
\* failing; after each enqueue / remove whose write succeeds, the persisted
\* array equals the in-memory queue in the same order.
C23_PersistMirrors ==
  lastSave = "ok" => stored = [kind |-> "arrayEvents", evs |-> oq]

C23_Witness == lastSave = "ok" /\ Len(oq) >= 2 /\ ~oqOnlyEnq

\* C24: construction never throws; absent, unparsable or non-event-array
\* storage yields an empty queue, a stored array of events yields those
\* events in stored order.
C24_LoadTolerant ==
  /\ oqStore.kind \in NonEventKinds => oqLoaded = <<>>
  /\ oqStore.kind = "arrayEvents" => oqLoaded = oqStore.evs

RtJsonSafe(e) ==
  /\ Get(e, "timestamp").t = "date"
  /\ \A i \in DOMAIN Get(e, "breadcrumbs").a :
       /\ Get(Get(e, "breadcrumbs").a[i], "timestamp").t = "date"
       /\ JsonVal(Get(Get(e, "breadcrumbs").a[i], "data"))
  /\ Get(e, "journey").t = "obj" =>
       /\ Get(Get(e, "journey"), "startedAt").t = "date"
       /\ JsonVal(Get(Get(e, "journey"), "metadata"))

RtFields(e) == <<Get(e, "timestamp"), Get(e, "breadcrumbs"), Get(e, "journey")>>

\* C25 (as stated): for every queued event, save then load reproduces the
\* event timestamp, the breadcrumb timestamps and journey startedAt, and
\* identical breadcrumb and journey sub-structures.
C25_RoundTripAll ==
  rtDone => [i \in 1..3 |-> Canon(RtFields(rtOut)[i])]
              = [i \in 1..3 |-> Canon(RtFields(rtIn)[i])]

\* C25 (amended): the round trip reproduces timestamp, breadcrumb timestamps,
\* journey startedAt and the breadcrumb / journey sub-structures whenever the
\* event timestamp, every breadcrumb timestamp and journey startedAt are valid
\* Dates and breadcrumb data and journey metadata hold only JSON values (no
\* Date, NaN or invalid Date inside them).
C25_RoundTripJson ==
  (rtDone /\ RtJsonSafe(rtIn))
    => [i \in 1..3 |-> Canon(RtFields(rtOut)[i])]
         = [i \in 1..3 |-> Canon(RtFields(rtIn)[i])]

C25_Witness ==
  /\ rtDone /\ RtJsonSafe(rtIn)
  /\ Get(rtIn, "journey").t = "obj" /\ Len(Get(rtIn, "breadcrumbs").a) = 1
  /\ Get(Get(Get(rtIn, "breadcrumbs").a[1], "data"), "k").t = "str"

\* C26: after Journey.complete() or Journey.fail(), no step of that journey is
\* in_progress in any later state, even after further startStep calls.
C26_NoActiveStepAfterEnd ==
  \A s \in 1..Len(steps) : steps[s].st = "in_progress" => ~IsComplete(steps[s].j)

\* C27: on every Journey.complete() / Journey.fail() call (a repeated one on a
\* finished journey included, and complete() from JourneyScope disposal), an
\* in_progress current step becomes completed / failed respectively and gets
\* an end time, every other step (terminal ones included) is untouched, and
\* the journey's flag is set.
C27_EndCascade ==
  [][jAct'.a = "journeyEnd" =>
       LET j == jAct'.j
           c == jCurStep[j]
           how == jAct'.how
       IN /\ Len(steps') = Len(steps)
          /\ \A s \in 1..Len(steps) :
               IF s = c /\ steps[s].st = "in_progress"
                 THEN steps'[s] = [steps[s] EXCEPT !.st = how, !.ended = TRUE]
                 ELSE steps'[s] = steps[s]
          /\ how = "completed" => jComp'[j]
          /\ how = "failed" => jFail'[j]]_vars

\* fail() again on an already failed journey whose new step was in_progress
C27_Witness ==
  /\ jAct.a = "journeyEnd" /\ jAct.again /\ jAct.how = "failed"
  /\ steps[jCurStep[jAct.j]].st = "failed"

\* C28: disposing the JourneyScope of a journey J while the client's current
\* journey is a different journey J' leaves J' as the current journey.
C28_DisposeKeepsOther ==
  [][(lastDisposed' # 0 /\ curJ # 0 /\ curJ # lastDisposed') => curJ' = curJ]_vars

\* C21: after close() no timer drain begins (only flush() drains start once the
\* client is clientClosed), and close() itself leaves the queue unchanged.
C21_CloseStopsTimer ==
  /\ [](\A k \in DrainSlots : drains[k].postClose => drains[k].by = "flush")
  /\ [][(clientClosed' /\ ~clientClosed) => dq' = dq]_vars

\* a flush() started after close() performs a drain that sends
C21_Witness ==
  \E k \in DrainSlots : drains[k].postClose /\ drains[k].by = "flush"
                        /\ drains[k].pc = "sending" /\ drains[k].sent # <<>>

\* C22: with the timer running (client not clientClosed), if from some point on the
\* collector is online and every send succeeds, the queue eventually becomes
\* empty for good.
C22_EventuallyDrained ==
  ([]timerOn /\ <>[]good) => <>[](dq = <<>>)

C22_Witness ==
  good /\ timerOn /\ nCap >= 2 /\ dq = <<>>
  /\ \E k \in DrainSlots : drains[k].by = "timer" /\ Len(drains[k].sent) >= 2

\* C29 (as stated): overlapping drains never pass the same queued event to
\* Transport.send more than once.
C29_NoDuplicateAcross == ~dupSend

\* C29 (amended): a single drain passes each queued event to Transport.send at
\* most once; overlapping drains may each send it.
C29_OncePerDrain ==
  \A k \in DrainSlots :
    \A a, b \in 1..Len(drains[k].sent) : a # b => drains[k].sent[a] # drains[k].sent[b]

C29_Witness ==
  dupSend /\ \E k \in DrainSlots : Len(drains[k].sent) >= 1

\* C30: when a drain finishes, every event enqueued after it started or whose
\* send in it failed is still queued, unless it was evicted by overflow or
\* removed by another drain's successful send meanwhile.
C30_DrainRemovesOwnSuccesses ==
  [][\A k \in DrainSlots :
       (drains[k].pc = "sending" /\ drains'[k].pc = "idle")
         => ((drains[k].seen \cup Range(drains[k].sent))
               \ (drains[k].succ \cup drains[k].lost)) \subseteq Range(Ids(dq'))]_vars

C30_Witness ==
  \E k \in DrainSlots :
    /\ drains[k].pc = "sending" /\ drains[k].i > Len(drains[k].snap)
    /\ drains[k].seen \ drains[k].lost # {}
    /\ Range(drains[k].sent) \ drains[k].succ # {}
    /\ drains[k].succ # {}

\* C31: an event built while journey J is current, where J was started while
\* a client user was set and Journey.setUser has not been called on J since,
\* carries the user copied at startJourney, whatever setUser / clearUser did
\* since.
C31_JourneyKeepsUser ==
  \A i \in 1..Len(events) :
    (events[i].jctx # 0 /\ events[i].jStartAt \in Users)
      => events[i].user = events[i].jStartAt

C31_Witness ==
  \E i \in 1..Len(events) :
    /\ events[i].jctx # 0 /\ events[i].jStartAt \in Users
    /\ events[i].cUserAt # events[i].jStartAt

====
